---- MODULE Spec2Model ----
(***************************************************************************)
(* Model of bmmscap/imaging_app: the research reply parser                 *)
(* (researchTopicForPrompt) and the video job poller                       *)
(* (generateVideoFromImage) of services/geminiService.                     *)
(*                                                                         *)
(* Text is a sequence of symbols.  A symbol is one character ("\n", " ",   *)
(* "-", "A", "B") or one lexeme that the regular expressions of the code   *)
(* match as a unit (a section label in some letter case).  An optional     *)
(* JavaScript value (undefined or a value) is a sequence of length 0 or 1. *)
(***************************************************************************)
EXTENDS Integers, Sequences, FiniteSets, TLC

VARIABLES rpc, config, response, result,
          vpc, input, submitted, operation, timer, log, videoHandle,
          isFullscreen, zoomLevel, showShareModal, copyStatus, copies, writes,
          resets, isAnimating, showVideoModal, videoUrl, videoStyle, calls

rvars == <<rpc, config, response, result>>
vvars == <<vpc, input, submitted, operation, timer, log, videoHandle>>
ivars == <<isFullscreen, zoomLevel, showShareModal, copyStatus, copies, writes,
           resets, isAnimating, showVideoModal, videoUrl, videoStyle, calls>>
vars == <<rpc, config, response, result,
          vpc, input, submitted, operation, timer, log, videoHandle,
          isFullscreen, zoomLevel, showShareModal, copyStatus, copies, writes,
          resets, isAnimating, showVideoModal, videoUrl, videoStyle, calls>>

(***************************************************************************)
(* Bounds of the model.                                                    *)
(***************************************************************************)
MaxTextLen == 4
MaxExtraLines == 1
MaxChunks == 3
MaxPolls == 3
MaxCopies == 3

(***************************************************************************)
(* Generic helpers.                                                        *)
(***************************************************************************)
None == <<>>
Some(x) == <<x>>

\* the sequences over S of length at most n
SeqsUpTo(S, n) == UNION {[1..k -> S] : k \in 0..n}

RECURSIVE MapSeq(_, _)
MapSeq(F(_), s) == IF s = <<>> THEN <<>> ELSE <<F(Head(s))>> \o MapSeq(F, Tail(s))

(***************************************************************************)
(* JavaScript string primitives, on sequences of symbols.                  *)
(***************************************************************************)
\* the characters \s matches and String.prototype.trim removes
IsSpace(c) == c \in {" ", "\n"}

\* case folding of the /i flag, on the label lexemes
ToUpper(c) ==
  CASE c \in {"facts:", "Facts:"} -> "FACTS:"
    [] c \in {"image_prompt:", "Image_Prompt:"} -> "IMAGE_PROMPT:"
    [] OTHER -> c

NotSpace(c) == ~IsSpace(c)
IsNewline(c) == c = "\n"
IsFactsLabel(c) == ToUpper(c) = "FACTS:"
IsPromptLabel(c) == ToUpper(c) = "IMAGE_PROMPT:"

\* the first index >= i of s whose symbol satisfies P, Len(s) + 1 when there is none
RECURSIVE IndexFrom(_, _, _)
IndexFrom(P(_), s, i) ==
  IF i > Len(s) THEN Len(s) + 1
  ELSE IF P(s[i]) THEN i
  ELSE IndexFrom(P, s, i + 1)

\* the last index <= i of s whose symbol satisfies P, 0 when there is none
RECURSIVE LastIndexFrom(_, _, _)
LastIndexFrom(P(_), s, i) ==
  IF i < 1 THEN 0
  ELSE IF P(s[i]) THEN i
  ELSE LastIndexFrom(P, s, i - 1)

\* where a greedy \s* that starts at index i stops
SkipSpace(s, i) == IndexFrom(NotSpace, s, i)

\* String.prototype.trim
Trim(s) == SubSeq(s, IndexFrom(NotSpace, s, 1), LastIndexFrom(NotSpace, s, Len(s)))

\* String.prototype.split('\n'): always at least one piece
RECURSIVE Split(_)
Split(s) ==
  LET nl == IndexFrom(IsNewline, s, 1)
  IN IF nl > Len(s) THEN <<s>>
     ELSE <<SubSeq(s, 1, nl - 1)>> \o Split(SubSeq(s, nl + 1, Len(s)))

\* Array.prototype.slice(0, n)
Slice(s, n) == SubSeq(s, 1, IF Len(s) < n THEN Len(s) ELSE n)

(***************************************************************************)
(* researchTopicForPrompt: instruction lookup tables.                      *)
(***************************************************************************)
getLevelInstruction(level) ==
  CASE level = "General Audience" -> "Target Audience: General Public (News Segment). Style: Clear, engaging, high-level overview. Large text, iconic imagery. Focus on the 'Big Picture'."
    [] level = "Investor" -> "Target Audience: Investors. Style: Financial Report. Professional, data-driven, clear trends, ROI focus. Emphasize growth and opportunity."
    [] level = "Analyst" -> "Target Audience: Market Analysts. Style: Deep Dive. Dense data, complex charts, correlations, detailed annotations. Focus on accuracy and data density."
    [] level = "Executive Leadership" -> "Target Audience: C-Suite / Board of Directors. Style: Strategic, high-level KPIs, polished, actionable insights. Concise, impactful, decision-oriented."
    [] level = "Legal" -> "Target Audience: Legal Professionals & Regulators. Style: Formal, structured, hierarchical. Focus on compliance, frameworks, and flow of logic. Trustworthy and precise."
    [] level = "Sustainability" -> "Target Audience: ESG Stakeholders. Style: Eco-conscious, organic data visualization. Earth tones, focus on environmental impact, circular economy, and social responsibility."
    [] level = "Startup / VC" -> "Target Audience: VCs & Founders. Style: Pitch Deck Aesthetic. Modern, disruptive, high-growth visualization. Bold colors, simplified metrics, 'Unicorn' energy."
    [] OTHER -> "Target Audience: General Public. Style: Broadcast quality."

getStyleInstruction(style) ==
  CASE style = "Broadcast" -> "Aesthetic: TV News Graphics. High contrast, vibrant, glossy, 16:9 composition, safe areas, lower thirds style labels, 3D elements on 2D planes."
    [] style = "Editorial" -> "Aesthetic: High-end Magazine (Bloomberg/Economist). Clean typography, sophisticated color palette, flat infographic style, ample whitespace."
    [] style = "Cinematic" -> "Aesthetic: Documentary Still. Photorealistic, dramatic lighting, depth of field, 8k resolution, cinematic color grading."
    [] style = "Explainer" -> "Aesthetic: Motion Graphics style. Flat vector 2.0, clean lines, bright modern colors, simplified geometry, clear visual metaphors."
    [] style = "Corporate" -> "Aesthetic: Annual Report. Clean white background, corporate blues/greys, professional, trustworthy, structured grids."
    [] style = "Terminal" -> "Aesthetic: Bloomberg Terminal. Dark background, neon data points, dense information, grid systems, monospace fonts."
    [] style = "Studio" -> "Aesthetic: 3D Studio Render. Isometric view, claymorphism or glassmorphism, soft studio lighting, high fidelity materials."
    [] style = "Whiteboard" -> "Aesthetic: Strategy Session. Hand-drawn markers on whiteboard, diagrams, flowcharts, messy but genius, napkin math style."
    [] OTHER -> "Aesthetic: Broadcast quality infographic."

(***************************************************************************)
(* researchTopicForPrompt: parsing of the reply text.                      *)
(***************************************************************************)
\* const text = response.text || ""
replyText(resp) == IF resp.text = None THEN <<>> ELSE resp.text[1]

NoMatch == [matched |-> FALSE, group |-> <<>>]
Match(g) == [matched |-> TRUE, group |-> g]

\* text.match(/FACTS:\s*([\s\S]*?)(?=IMAGE_PROMPT:|$)/i): leftmost label, greedy
\* whitespace, then the shortest run that ends before a prompt label or at the end
factsMatch(text) ==
  LET at == IndexFrom(IsFactsLabel, text, 1)
  IN IF at > Len(text) THEN NoMatch
     ELSE LET from == SkipSpace(text, at + 1)
          IN Match(SubSeq(text, from, IndexFrom(IsPromptLabel, text, from) - 1))

\* factsMatch ? factsMatch[1].trim() : ""
factsRaw(text) ==
  LET m == factsMatch(text) IN IF m.matched THEN Trim(m.group) ELSE <<>>

\* f => f.replace(/^-\s*/, '').trim()
stripBullet(f) ==
  Trim(IF f # <<>> /\ f[1] = "-" THEN SubSeq(f, SkipSpace(f, 2), Len(f)) ELSE f)

\* f => f.length > 0
nonEmpty(f) == Len(f) > 0

\* the number of entries .slice(0, 5) keeps
MaxFacts == 5

\* mutant of truncateFacts: the slice keeps one entry more
truncateFactsOneMore(fs) == Slice(fs, MaxFacts + 1)

\* .slice(0, 5)
truncateFacts(fs) == Slice(fs, MaxFacts)

\* mutant of facts: the slice is taken before the empty entries are dropped
factsSliceFirst(text) ==
  SelectSeq(truncateFacts(MapSeq(stripBullet, Split(factsRaw(text)))), nonEmpty)

\* factsRaw.split('\n').map(...).filter(...).slice(0, 5)
facts(text) ==
  truncateFacts(SelectSeq(MapSeq(stripBullet, Split(factsRaw(text))), nonEmpty))

\* text.match(/IMAGE_PROMPT:\s*([\s\S]*?)$/i): leftmost label, the rest of the text
promptMatch(text) ==
  LET at == IndexFrom(IsPromptLabel, text, 1)
  IN IF at > Len(text) THEN NoMatch
     ELSE Match(SubSeq(text, SkipSpace(text, at + 1), Len(text)))

\* `Create a detailed infographic about ${topic}. ${levelInstr} ${styleInstr}`
defaultPrompt(cfg) ==
  <<"Create a detailed infographic about ", cfg.topic, ". ",
    getLevelInstruction(cfg.level), " ", getStyleInstruction(cfg.style)>>

\* mutant of imagePrompt: no fallback when the label is missing
imagePromptNoFallback(text, cfg) == Trim(promptMatch(text).group)

\* promptMatch ? promptMatch[1].trim() : `Create ...`
imagePrompt(text, cfg) ==
  LET m == promptMatch(text) IN IF m.matched THEN Trim(m.group) ELSE defaultPrompt(cfg)

(***************************************************************************)
(* researchTopicForPrompt: grounding citations.                            *)
(***************************************************************************)
\* truthiness of an optional string: undefined and "" are falsy
Truthy(opt) == opt # None /\ opt[1] # ""

\* chunk.web?.uri && chunk.web?.title
isComplete(chunk) ==
  chunk.web # None /\ Truthy(chunk.web[1].uri) /\ Truthy(chunk.web[1].title)

toItem(chunk) == [title |-> chunk.web[1].title[1], url |-> chunk.web[1].uri[1]]

\* if (chunks) chunks.forEach(chunk => { if (...) searchResults.push({title, url}) })
searchResults(chunks) ==
  IF chunks = None THEN <<>> ELSE MapSeq(toItem, SelectSeq(chunks[1], isComplete))

\* mutant of MapSet: an existing key keeps its first value
MapSetKeepFirst(m, k, v) ==
  IF \E i \in 1..Len(m) : m[i].key = k
  THEN m
  ELSE Append(m, [key |-> k, value |-> v])

\* mutant of MapSet: every set adds an entry
MapSetAppend(m, k, v) == Append(m, [key |-> k, value |-> v])

\* mutant of MapSet: setting an existing key moves it to the end
MapSetMoveToEnd(m, k, v) ==
  Append(SelectSeq(m, LAMBDA e : e.key # k), [key |-> k, value |-> v])

\* Map.prototype.set on a Map kept as the sequence of its entries in insertion
\* order: an existing key keeps its place and takes the new value
MapSet(m, k, v) ==
  IF \E i \in 1..Len(m) : m[i].key = k
  THEN [i \in 1..Len(m) |-> IF m[i].key = k THEN [key |-> k, value |-> v] ELSE m[i]]
  ELSE Append(m, [key |-> k, value |-> v])

\* new Map(searchResults.map(item => [item.url, item]))
RECURSIVE NewMap(_)
NewMap(items) ==
  IF items = <<>> THEN <<>>
  ELSE LET last == items[Len(items)]
       IN MapSet(NewMap(SubSeq(items, 1, Len(items) - 1)), last.url, last)

entryValue(e) == e.value

\* Array.from(new Map(...).values())
uniqueResults(items) == MapSeq(entryValue, NewMap(items))

\* the value researchTopicForPrompt returns for a reply
researchResult(resp, cfg) ==
  [imagePrompt |-> imagePrompt(replyText(resp), cfg),
   facts |-> facts(replyText(resp)),
   searchResults |-> uniqueResults(searchResults(resp.chunks))]

(***************************************************************************)
(* Inputs of the research call.                                            *)
(***************************************************************************)
Configs ==
  {[topic |-> "Interest rates", level |-> "Investor", style |-> "Terminal", language |-> "English"],
   [topic |-> "Chip exports", level |-> "Unlisted", style |-> "Unlisted", language |-> "Hindi"]}

Symbols == {"FACTS:", "facts:", "IMAGE_PROMPT:", "Image_Prompt:", "\n", " ", "-", "A"}

\* every short text
ShortTexts == SeqsUpTo(Symbols, MaxTextLen)

\* the lines a FACTS block is made of: a bulleted fact, a bare bullet, a blank
\* line, an indented bullet
LineShapes == {<<"-", " ", "A">>, <<"-">>, <<>>, <<" ", "-", " ", "B">>}

RECURSIVE Join(_)
Join(lines) ==
  IF Len(lines) = 0 THEN <<>>
  ELSE IF Len(lines) = 1 THEN lines[1]
  ELSE lines[1] \o <<"\n">> \o Join(Tail(lines))

Trailers == {<<>>, <<"\n", "IMAGE_PROMPT:", "\n", "A">>}

\* replies in the requested format, with up to MaxFacts + MaxExtraLines fact lines
BlockTexts ==
  {<<"FACTS:", "\n">> \o Join(ls) \o t :
     ls \in SeqsUpTo(LineShapes, MaxFacts + MaxExtraLines), t \in Trailers}

Urls == {"a", "b"}
Titles == {"T1", "T2"}
Web(u, t) == [web |-> Some([uri |-> u, title |-> t])]

\* grounding chunks: complete ones, and ones that lack web, uri or title
Chunks ==
  {Web(Some(u), Some(t)) : u \in Urls, t \in Titles}
  \cup {[web |-> None], Web(None, Some("T1")), Web(Some(""), Some("T1")),
        Web(Some("a"), None), Web(Some("b"), Some(""))}

ChunkLists == SeqsUpTo(Chunks, MaxChunks)

FormatText == <<"FACTS:", "\n", "-", " ", "A", "\n", "IMAGE_PROMPT:", "\n", "A">>

\* a reply of generateContent: its text and its grounding chunks, each optional
Reply(text, chunks) == [text |-> text, chunks |-> chunks]

(***************************************************************************)
(* The research call as a state machine.                                   *)
(***************************************************************************)
\* researchTopicForPrompt is called and awaits generateContent
researchTopicForPrompt ==
  /\ rpc = "idle"
  /\ \E cfg \in Configs : config' = Some(cfg)
  /\ rpc' = "awaiting"
  /\ UNCHANGED <<response, result>>
  /\ UNCHANGED <<vvars, ivars>>

\* the code that runs once generateContent has resolved: the reply is parsed
\* and the result returned
parseReply(resp) ==
  /\ response' = Some(resp)
  /\ result' = Some(researchResult(resp, config[1]))
  /\ rpc' = "returned"
  /\ UNCHANGED config
  /\ UNCHANGED <<vvars, ivars>>

\* generateContent resolves.  The text and the citations are parsed
\* independently, so the replies vary one of them at a time.
generateContentResolves ==
  /\ rpc = "awaiting"
  /\ \/ \E t \in ShortTexts : parseReply(Reply(Some(t), None))
     \/ \E t \in BlockTexts : parseReply(Reply(Some(t), None))
     \/ \E c \in ChunkLists : parseReply(Reply(Some(FormatText), Some(c)))
     \/ \E c \in {None, Some(<<>>)} : parseReply(Reply(None, c))

\* generateContent rejects: the call fails with that error
generateContentRejects ==
  /\ rpc = "awaiting"
  /\ rpc' = "failed"
  /\ UNCHANGED <<config, response, result>>
  /\ UNCHANGED <<vvars, ivars>>

NextResearch ==
  \/ researchTopicForPrompt
  \/ generateContentResolves
  \/ generateContentRejects

(***************************************************************************)
(* generateVideoFromImage.  An image is the sequence of the pieces of its  *)
(* data URI (<<"data:image/", mime, ";base64,", payload>>) or the bare     *)
(* payload.  A job handle has an optional done flag and an optional        *)
(* response; the log lists, in order, what the call issued and observed.   *)
(***************************************************************************)
\* mutant of cleanBase64: only a png prefix is removed
cleanBase64PngOnly(imageBase64) ==
  IF /\ Len(imageBase64) >= 3
     /\ imageBase64[1] = "data:image/"
     /\ imageBase64[2] = "png"
     /\ imageBase64[3] = ";base64,"
  THEN SubSeq(imageBase64, 4, Len(imageBase64))
  ELSE imageBase64

\* imageBase64.replace(/^data:image\/(png|jpeg|jpg);base64,/, '')
cleanBase64(imageBase64) ==
  IF /\ Len(imageBase64) >= 3
     /\ imageBase64[1] = "data:image/"
     /\ imageBase64[2] \in {"png", "jpeg", "jpg"}
     /\ imageBase64[3] = ";base64,"
  THEN SubSeq(imageBase64, 4, Len(imageBase64))
  ELSE imageBase64

\* if (style === 'Cinematic') ... else ...
motionPrompt(style) ==
  IF style = "Cinematic"
  THEN "Cinematic slow pan and zoom across the image details, Ken Burns effect, highly detailed 4k output, smooth broadcast motion, emphasize data points."
  ELSE "Dynamic broadcast camera movement, slight parallax, data visualization motion, professional news segment intro style, 4k."

\* the argument of ai.models.generateVideos
videoRequest(imageBase64, style) ==
  [model |-> "veo-3.1-fast-generate-preview",
   prompt |-> motionPrompt(style),
   imageBytes |-> cleanBase64(imageBase64),
   mimeType |-> "image/png",
   numberOfVideos |-> 1,
   resolution |-> "720p",
   aspectRatio |-> "16:9"]

\* mutant of stillPolling: the loop goes on only for done === false
stillPollingOnlyIfFalse(op) == op.done = Some(FALSE)

\* while (!operation.done)
stillPolling(op) == op.done # Some(TRUE)

\* operation.response?.generatedVideos?.[0]?.video?.uri
downloadLink(op) ==
  IF op.response = None THEN None
  ELSE IF op.response[1].generatedVideos = <<>> THEN None
  ELSE IF op.response[1].generatedVideos[1].video = None THEN None
  ELSE op.response[1].generatedVideos[1].video[1].uri

\* mutant of noDownloadLink: only an undefined link fails
noDownloadLinkUndefinedOnly(op) == downloadLink(op) = None

\* mutant of noDownloadLink: the test of the link is missing
noDownloadLinkNever(op) == FALSE

\* if (!downloadLink)
noDownloadLink(op) == ~Truthy(downloadLink(op))

(***************************************************************************)
(* Inputs of the video call.                                               *)
(***************************************************************************)
Payload == "iVBORw0KGgo="
Images ==
  {<<"data:image/", m, ";base64,", Payload>> : m \in {"png", "jpeg", "jpg", "webp"}}
  \cup {<<Payload>>}
VideoStyles == {"Cinematic", "Dynamic"}

Videos(uri) ==
  LET video == [video |-> Some([uri |-> uri])]
  IN Some([generatedVideos |-> <<video>>])
VideoUri == "https://video.example/1?alt=media"

\* handles of a job that goes on
PendingOperations ==
  {[done |-> None, response |-> None],
   [done |-> Some(FALSE), response |-> None],
   [done |-> None, response |-> Videos(Some(VideoUri))]}

\* handles of a finished job, with and without a result uri
DoneOperations ==
  {[done |-> Some(TRUE), response |-> r] :
     r \in {None,
            Some([generatedVideos |-> <<>>]),
            Some([generatedVideos |-> << [video |-> None] >>]),
            Videos(None), Videos(Some("")), Videos(Some(VideoUri))}}

Operations == PendingOperations \cup DoneOperations

Count(s, e) == Cardinality({i \in 1..Len(s) : s[i] = e})

(***************************************************************************)
(* The video call as a state machine.                                      *)
(***************************************************************************)
\* generateVideoFromImage is called: it builds the request and awaits
\* generateVideos
generateVideoFromImage ==
  /\ vpc = "idle"
  /\ \E img \in Images, style \in VideoStyles :
       /\ input' = Some([imageBase64 |-> img, style |-> style])
       /\ submitted' = Some(videoRequest(img, style))
  /\ log' = <<"generateVideos">>
  /\ vpc' = "submitting"
  /\ UNCHANGED <<operation, timer, videoHandle>>
  /\ UNCHANGED <<rvars, ivars>>

\* the delay of the setTimeout of the polling loop, in ms
PollIntervalMs == 5000

\* how the log records a handle that was observed
seen(op) == IF op.done = Some(TRUE) THEN "done" ELSE "pending"

\* the code that runs once a handle is assigned to operation: the loop test,
\* and after the loop the test of the result uri and the fetch
observe(op) ==
  /\ operation' = Some(op)
  /\ IF stillPolling(op)
     THEN /\ log' = log \o <<seen(op), "setTimeout">>
          /\ timer' = Some(PollIntervalMs)
          /\ vpc' = "sleeping"
     ELSE IF noDownloadLink(op)
     THEN /\ log' = log \o <<seen(op), "throw">>
          /\ vpc' = "failed"
          /\ UNCHANGED timer
     ELSE /\ log' = log \o <<seen(op), "fetch">>
          /\ vpc' = "fetching"
          /\ UNCHANGED timer
  /\ UNCHANGED <<input, submitted, videoHandle>>
  /\ UNCHANGED <<rvars, ivars>>

\* mutant of rejects: a rejected submission is submitted again, once
rejectsRetryOnce(at) ==
  /\ vpc = at
  /\ IF at = "submitting" /\ Count(log, "throw") = 0
     THEN /\ log' = log \o <<"throw", "generateVideos">>
          /\ UNCHANGED vpc
     ELSE /\ log' = Append(log, "throw")
          /\ vpc' = "failed"
  /\ UNCHANGED <<input, submitted, operation, timer, videoHandle>>
  /\ UNCHANGED <<rvars, ivars>>

\* an awaited call rejects: the error leaves generateVideoFromImage
rejects(at) ==
  /\ vpc = at
  /\ vpc' = "failed"
  /\ log' = Append(log, "throw")
  /\ UNCHANGED <<input, submitted, operation, timer, videoHandle>>
  /\ UNCHANGED <<rvars, ivars>>

\* mutant of generateVideosResolves: the loop body runs before the first test
generateVideosResolvesDoWhile ==
  /\ vpc = "submitting"
  /\ \E op \in Operations :
       /\ operation' = Some(op)
       /\ log' = log \o <<seen(op), "setTimeout">>
  /\ timer' = Some(PollIntervalMs)
  /\ vpc' = "sleeping"
  /\ UNCHANGED <<input, submitted, videoHandle>>
  /\ UNCHANGED <<rvars, ivars>>

\* generateVideos resolves with the first handle
generateVideosResolves ==
  /\ vpc = "submitting"
  /\ \E op \in Operations : observe(op)

generateVideosRejects == rejects("submitting")

\* mutant of timerFires: after two status queries the call gives up
timerFiresGivesUp ==
  /\ vpc = "sleeping"
  /\ timer # None
  /\ timer' = None
  /\ IF Count(log, "getVideosOperation") >= 2
     THEN /\ log' = Append(log, "throw")
          /\ vpc' = "failed"
     ELSE /\ log' = Append(log, "getVideosOperation")
          /\ vpc' = "querying"
  /\ UNCHANGED <<input, submitted, operation, videoHandle>>
  /\ UNCHANGED <<rvars, ivars>>

\* the 5000 ms timer fires: the status query is issued
timerFires ==
  /\ vpc = "sleeping"
  /\ timer # None
  /\ Count(log, "getVideosOperation") < MaxPolls
  /\ timer' = None
  /\ log' = Append(log, "getVideosOperation")
  /\ vpc' = "querying"
  /\ UNCHANGED <<input, submitted, operation, videoHandle>>
  /\ UNCHANGED <<rvars, ivars>>

\* mutant of getVideosOperationResolves: a handle that is not done is queried
\* again at once, without a wait
getVideosOperationResolvesNoWait ==
  /\ vpc = "querying"
  /\ \E op \in Operations :
       IF stillPolling(op) /\ Count(log, "getVideosOperation") < MaxPolls
       THEN /\ operation' = Some(op)
            /\ log' = log \o <<seen(op), "getVideosOperation">>
            /\ UNCHANGED <<vpc, input, submitted, timer, videoHandle>>
            /\ UNCHANGED <<rvars, ivars>>
       ELSE observe(op)

\* getVideosOperation resolves with the next handle
getVideosOperationResolves ==
  /\ vpc = "querying"
  /\ \E op \in Operations : observe(op)

getVideosOperationRejects == rejects("querying")

\* fetch resolves: response.blob() is awaited
fetchResolves ==
  /\ vpc = "fetching"
  /\ log' = Append(log, "blob")
  /\ vpc' = "reading"
  /\ UNCHANGED <<input, submitted, operation, timer, videoHandle>>
  /\ UNCHANGED <<rvars, ivars>>

fetchRejects == rejects("fetching")

\* response.blob() resolves: URL.createObjectURL(blob) is returned
blobResolves ==
  /\ vpc = "reading"
  /\ log' = Append(log, "createObjectURL")
  /\ videoHandle' = Some("blob:video")
  /\ vpc' = "returned"
  /\ UNCHANGED <<input, submitted, operation, timer>>
  /\ UNCHANGED <<rvars, ivars>>

blobRejects == rejects("reading")

NextVideo ==
  \/ generateVideoFromImage
  \/ generateVideosResolves
  \/ generateVideosRejects
  \/ timerFires
  \/ getVideosOperationResolves
  \/ getVideosOperationRejects
  \/ fetchResolves
  \/ fetchRejects
  \/ blobResolves
  \/ blobRejects

(***************************************************************************)
(* The Infographic component.  zoomLevel is counted in tenths (10 is the   *)
(* scale 1), copies numbers the handleCopyImage calls so far, writes holds *)
(* the calls whose clipboard write is pending, resets the calls whose      *)
(* 2000 ms timer is pending, oldest first, and calls counts the pending    *)
(* generateVideoFromImage calls.  A handler runs when its button is        *)
(* rendered; a click is handled with the state of the last render.         *)
(***************************************************************************)
\* useState(1)
ZoomDefault == 10
\* prev + 0.5, prev - 0.5
ZoomStep == 5
\* Math.min(..., 4)
ZoomMax == 40
\* Math.max(..., 0.5)
ZoomMin == 5
\* setTimeout(() => setCopyStatus('idle'), 2000)
CopiedMs == 2000

Min(a, b) == IF a < b THEN a ELSE b
Max(a, b) == IF a > b THEN a ELSE b

\* the object URLs a video call can resolve with
ObjectUrls == {"blob:1", "blob:2"}

VideoVars == <<isAnimating, showVideoModal, videoUrl, videoStyle, calls>>
CopyVars == <<showShareModal, copyStatus, copies, writes, resets>>
ZoomVars == <<isFullscreen, zoomLevel>>

\* onClick={() => setIsFullscreen(true)}
openFullscreen ==
  /\ ~isFullscreen
  /\ isFullscreen' = TRUE
  /\ UNCHANGED <<zoomLevel, CopyVars, VideoVars, rvars, vvars>>

\* mutant of handleZoomIn: the step is taken without the cap
handleZoomInNoCap ==
  /\ isFullscreen
  /\ zoomLevel < ZoomMax + ZoomStep
  /\ zoomLevel' = zoomLevel + ZoomStep
  /\ UNCHANGED <<isFullscreen, CopyVars, VideoVars, rvars, vvars>>

\* setZoomLevel(prev => Math.min(prev + 0.5, 4))
handleZoomIn ==
  /\ isFullscreen
  /\ zoomLevel' = Min(zoomLevel + ZoomStep, ZoomMax)
  /\ UNCHANGED <<isFullscreen, CopyVars, VideoVars, rvars, vvars>>

\* setZoomLevel(prev => Math.max(prev - 0.5, 0.5))
handleZoomOut ==
  /\ isFullscreen
  /\ zoomLevel' = Max(zoomLevel - ZoomStep, ZoomMin)
  /\ UNCHANGED <<isFullscreen, CopyVars, VideoVars, rvars, vvars>>

\* setZoomLevel(1)
handleResetZoom ==
  /\ isFullscreen
  /\ zoomLevel' = ZoomDefault
  /\ UNCHANGED <<isFullscreen, CopyVars, VideoVars, rvars, vvars>>

\* setIsFullscreen(false); setZoomLevel(1)
handleCloseFullscreen ==
  /\ isFullscreen
  /\ isFullscreen' = FALSE
  /\ zoomLevel' = ZoomDefault
  /\ UNCHANGED <<CopyVars, VideoVars, rvars, vvars>>

\* onClick={() => setShowShareModal(true)}
openShareModal ==
  /\ ~showShareModal
  /\ showShareModal' = TRUE
  /\ UNCHANGED <<copyStatus, copies, writes, resets, ZoomVars, VideoVars, rvars, vvars>>

\* onClick={() => setShowShareModal(false)}
closeShareModal ==
  /\ showShareModal
  /\ showShareModal' = FALSE
  /\ UNCHANGED <<copyStatus, copies, writes, resets, ZoomVars, VideoVars, rvars, vvars>>

\* handleCopyImage up to its await: the button is never disabled
handleCopyImage ==
  /\ showShareModal
  /\ copies < MaxCopies
  /\ copies' = copies + 1
  /\ copyStatus' = "copying"
  /\ writes' = writes \cup {copies + 1}
  /\ UNCHANGED <<showShareModal, resets, ZoomVars, VideoVars, rvars, vvars>>

\* navigator.clipboard.write resolves: 'copied', and the timer is started
clipboardWriteResolves ==
  /\ writes # {}
  /\ \E c \in writes :
       /\ writes' = writes \ {c}
       /\ resets' = Append(resets, [copy |-> c, ms |-> CopiedMs])
  /\ copyStatus' = "copied"
  /\ UNCHANGED <<showShareModal, copies, ZoomVars, VideoVars, rvars, vvars>>

\* dataURItoBlob or navigator.clipboard.write throws: the catch block
clipboardWriteRejects ==
  /\ writes # {}
  /\ \E c \in writes : writes' = writes \ {c}
  /\ copyStatus' = "idle"
  /\ UNCHANGED <<showShareModal, copies, resets, ZoomVars, VideoVars, rvars, vvars>>

\* the oldest 2000 ms timer fires: setCopyStatus('idle')
copiedTimerFires ==
  /\ resets # <<>>
  /\ resets' = Tail(resets)
  /\ copyStatus' = "idle"
  /\ UNCHANGED <<showShareModal, copies, writes, ZoomVars, VideoVars, rvars, vvars>>

\* setVideoUrl(null); setShowVideoModal(true)
handleOpenVideoModal ==
  /\ ~showVideoModal
  /\ videoUrl' = None
  /\ showVideoModal' = TRUE
  /\ UNCHANGED <<isAnimating, videoStyle, calls, ZoomVars, CopyVars, rvars, vvars>>

\* onClick={() => setShowVideoModal(false)}, disabled={isAnimating}
closeVideoModal ==
  /\ showVideoModal
  /\ ~isAnimating
  /\ showVideoModal' = FALSE
  /\ UNCHANGED <<isAnimating, videoUrl, videoStyle, calls, ZoomVars, CopyVars, rvars, vvars>>

\* onClick={() => setVideoStyle('Cinematic')}, onClick={() => setVideoStyle('Dynamic')}
setVideoStyle ==
  /\ showVideoModal
  /\ videoUrl = None
  /\ \E s \in VideoStyles : videoStyle' = s
  /\ UNCHANGED <<isAnimating, showVideoModal, videoUrl, calls, ZoomVars, CopyVars, rvars, vvars>>

\* mutant of handleGenerateVideo: the test of isAnimating is missing
handleGenerateVideoNoGuard ==
  /\ showVideoModal
  /\ calls < 2
  /\ isAnimating' = TRUE
  /\ calls' = calls + 1
  /\ UNCHANGED <<showVideoModal, videoUrl, videoStyle, ZoomVars, CopyVars, rvars, vvars>>

\* handleGenerateVideo up to its await; a click while isAnimating returns at once
handleGenerateVideo ==
  /\ showVideoModal
  /\ IF isAnimating
     THEN UNCHANGED <<isAnimating, calls>>
     ELSE /\ isAnimating' = TRUE
          /\ calls' = calls + 1
  /\ UNCHANGED <<showVideoModal, videoUrl, videoStyle, ZoomVars, CopyVars, rvars, vvars>>

\* generateVideoFromImage resolves: setVideoUrl(url), then the finally block
videoCallResolves ==
  /\ calls > 0
  /\ \E url \in ObjectUrls : videoUrl' = Some(url)
  /\ isAnimating' = FALSE
  /\ calls' = calls - 1
  /\ UNCHANGED <<showVideoModal, videoStyle, ZoomVars, CopyVars, rvars, vvars>>

\* generateVideoFromImage rejects: the catch block, then the finally block
videoCallRejects ==
  /\ calls > 0
  /\ isAnimating' = FALSE
  /\ calls' = calls - 1
  /\ UNCHANGED <<showVideoModal, videoUrl, videoStyle, ZoomVars, CopyVars, rvars, vvars>>

NextInfographic ==
  \/ openFullscreen
  \/ handleZoomIn
  \/ handleZoomOut
  \/ handleResetZoom
  \/ handleCloseFullscreen
  \/ openShareModal
  \/ closeShareModal
  \/ handleCopyImage
  \/ clipboardWriteResolves
  \/ clipboardWriteRejects
  \/ copiedTimerFires
  \/ handleOpenVideoModal
  \/ closeVideoModal
  \/ setVideoStyle
  \/ handleGenerateVideo
  \/ videoCallResolves
  \/ videoCallRejects

\* no call has been made yet
Init ==
  /\ rpc = "idle"
  /\ config = None
  /\ response = None
  /\ result = None
  /\ vpc = "idle"
  /\ input = None
  /\ submitted = None
  /\ operation = None
  /\ timer = None
  /\ log = <<>>
  /\ videoHandle = None
  /\ isFullscreen = FALSE
  /\ zoomLevel = ZoomDefault
  /\ showShareModal = FALSE
  /\ copyStatus = "idle"
  /\ copies = 0
  /\ writes = {}
  /\ resets = <<>>
  /\ isAnimating = FALSE
  /\ showVideoModal = FALSE
  /\ videoUrl = None
  /\ videoStyle = "Cinematic"
  /\ calls = 0

\* one research call
SpecResearch == Init /\ [][NextResearch]_vars

\* one video call in which the timer fires and every awaited call settles
SpecVideoFair ==
  /\ Init
  /\ [][NextVideo]_vars
  /\ WF_vars(timerFires)
  /\ WF_vars(generateVideosResolves \/ generateVideosRejects)
  /\ WF_vars(getVideosOperationResolves \/ getVideosOperationRejects)
  /\ WF_vars(fetchResolves \/ fetchRejects)
  /\ WF_vars(blobResolves \/ blobRejects)

\* one mounted Infographic component
SpecInfographic == Init /\ [][NextInfographic]_vars

\* one video call
SpecVideo == Init /\ [][NextVideo]_vars

(***************************************************************************)
(* Vocabulary of the claims about researchTopicForPrompt.                  *)
(***************************************************************************)
Returned == rpc = "returned"
TheText == IF response[1].text = None THEN <<>> ELSE response[1].text[1]
TheChunks == IF response[1].chunks = None THEN <<>> ELSE response[1].chunks[1]
TheResults == result[1].searchResults
TheFacts == result[1].facts
ThePrompt == result[1].imagePrompt

\* citation i of the reply carries url u, with a uri and a title that are both there
CitesUrl(i, u) ==
  LET c == TheChunks[i]
  IN /\ c.web # None
     /\ c.web[1].uri = Some(u)
     /\ c.web[1].title \notin {None, Some("")}

CitationsOf(u) == {i \in 1..Len(TheChunks) : CitesUrl(i, u)}
FirstCitation(u) == CHOOSE i \in CitationsOf(u) : \A j \in CitationsOf(u) : i <= j
LastCitation(u) == CHOOSE i \in CitationsOf(u) : \A j \in CitationsOf(u) : i >= j
TitleAt(i) == TheChunks[i].web[1].title[1]

HasLabel(text, label) == \E i \in 1..Len(text) : ToUpper(text[i]) = label

\* C1 (as stated): the entry kept for a url has the title of the earliest
\* citation with that url.
C1_FirstTitleKept ==
  Returned =>
    \A k \in 1..Len(TheResults) :
      /\ CitationsOf(TheResults[k].url) # {}
      /\ TheResults[k].title = TitleAt(FirstCitation(TheResults[k].url))

\* C1 (amended): the entry kept for a url has the title of the latest citation
\* with that url; [{a,T1},{a,T2},{b,T3}] yields [{a,T2},{b,T3}].
C1_LastTitleKept ==
  Returned =>
    \A k \in 1..Len(TheResults) :
      /\ CitationsOf(TheResults[k].url) # {}
      /\ TheResults[k].title = TitleAt(LastCitation(TheResults[k].url))

\* a returned result whose first url was cited twice with different titles
C1_Witness ==
  /\ Returned
  /\ Len(TheResults) = 2
  /\ LET u == TheResults[1].url
     IN /\ Cardinality(CitationsOf(u)) = 2
        /\ TitleAt(FirstCitation(u)) # TitleAt(LastCitation(u))

\* C2: searchResults has no two entries with the same url, and every entry is
\* built from a citation that has a uri and a title.
C2_UniqueAndComplete ==
  Returned =>
    /\ \A k, l \in 1..Len(TheResults) : TheResults[k].url = TheResults[l].url => k = l
    /\ \A k \in 1..Len(TheResults) :
         /\ TheResults[k].url # ""
         /\ TheResults[k].title # ""
         /\ \E i \in 1..Len(TheChunks) :
              /\ TheChunks[i].web # None
              /\ TheChunks[i].web[1].uri = Some(TheResults[k].url)
              /\ TheChunks[i].web[1].title = Some(TheResults[k].title)

\* a returned, non-empty result of a reply that repeats a url and has a citation
\* without a uri
C2_Witness ==
  /\ Returned
  /\ TheResults # <<>>
  /\ \E i, j \in 1..Len(TheChunks) : i # j /\ CitesUrl(i, "a") /\ CitesUrl(j, "a")
  /\ \E i \in 1..Len(TheChunks) :
       TheChunks[i].web # None /\ TheChunks[i].web[1].uri = None

\* C3: the urls of searchResults are in first-seen order, and every cited url
\* is there.
C3_FirstSeenOrder ==
  Returned =>
    /\ \A u \in Urls : CitationsOf(u) # {} <=> \E k \in 1..Len(TheResults) : TheResults[k].url = u
    /\ \A k, l \in 1..Len(TheResults) :
         TheResults[k].url # TheResults[l].url =>
           (k < l <=> FirstCitation(TheResults[k].url) < FirstCitation(TheResults[l].url))

\* a returned result of two urls, the first of them cited again after the second
C3_Witness ==
  /\ Returned
  /\ Len(TheResults) = 2
  /\ LastCitation(TheResults[1].url) > FirstCitation(TheResults[2].url)

\* C4: the imagePrompt returned is never the empty string.
C4_PromptNeverEmpty == Returned => ThePrompt # <<>>

\* C5: facts has at most 5 entries and no entry is the empty string.
C5_FactsBounded ==
  Returned =>
    /\ Len(TheFacts) <= 5
    /\ \A k \in 1..Len(TheFacts) : TheFacts[k] # <<>>

\* text has a line that is a bare bullet
HasBareBullet(text) ==
  \E i \in 2..Len(text) :
    text[i] = "-" /\ text[i - 1] = "\n" /\ (i = Len(text) \/ text[i + 1] = "\n")

\* a returned result with 5 facts, from a block of more lines, a bare bullet
\* among them
C5_Witness ==
  /\ Returned
  /\ Len(TheFacts) = 5
  /\ HasBareBullet(TheText)

\* the lines of the FACTS block, each without its bullet marker and the
\* whitespace around it
FactLines == MapSeq(stripBullet, Split(factsRaw(TheText)))
\* how many fact lines are non-blank
RECURSIVE CountNonBlank(_)
CountNonBlank(lines) ==
  IF lines = <<>> THEN 0
  ELSE (IF Head(lines) = <<>> THEN 0 ELSE 1) + CountNonBlank(Tail(lines))

\* the first n non-blank lines of lines, read from the top
RECURSIVE FirstNonBlank(_, _)
FirstNonBlank(lines, n) ==
  IF n = 0 \/ lines = <<>> THEN <<>>
  ELSE IF Head(lines) = <<>> THEN FirstNonBlank(Tail(lines), n)
  ELSE <<Head(lines)>> \o FirstNonBlank(Tail(lines), n - 1)

\* C6: facts is the first 5 non-blank fact lines in their order, all of them
\* when there are at most 5 (a fact line is non-blank when text is left once
\* its bullet marker and the whitespace around it are removed).
C6_FirstFiveInOrder ==
  Returned =>
    /\ Len(TheFacts) = (IF CountNonBlank(FactLines) > 5 THEN 5 ELSE CountNonBlank(FactLines))
    /\ TheFacts = FirstNonBlank(FactLines, 5)

\* a returned result of a block with 6 non-blank fact lines, not all alike,
\* the 6th differing from the 5th
C6_Witness ==
  /\ Returned
  /\ CountNonBlank(FactLines) = 6
  /\ Len(TheFacts) = 5
  /\ TheFacts[1] # TheFacts[2]
  /\ FirstNonBlank(FactLines, 6)[6] # TheFacts[5]

\* C7: a reply without an IMAGE_PROMPT: label (an absent text included) makes
\* the call return, with the default prompt built from the topic, and with no
\* facts when there is no FACTS: label either; the call fails only when
\* generateContent itself does.
C7_DegradesToDefaults ==
  /\ rpc = "failed" => response = None /\ result = None
  /\ response # None => Returned /\ result # None
  /\ (Returned /\ ~HasLabel(TheText, "IMAGE_PROMPT:")) =>
       /\ ThePrompt = defaultPrompt(config[1])
       /\ \E i \in 1..Len(ThePrompt) : ThePrompt[i] = config[1].topic
       /\ ~HasLabel(TheText, "FACTS:") => TheFacts = <<>>

\* a returned result of a reply that has facts and no IMAGE_PROMPT: label
C7_Witness ==
  /\ Returned
  /\ response[1].text # None
  /\ HasLabel(TheText, "FACTS:")
  /\ ~HasLabel(TheText, "IMAGE_PROMPT:")
  /\ TheFacts # <<>>
  /\ ThePrompt = defaultPrompt(config[1])

(***************************************************************************)
(* Vocabulary of the claims about generateVideoFromImage.                  *)
(***************************************************************************)
Queries == Count(log, "getVideosOperation")
PendingSeen == Count(log, "pending")
DoneSeen == Count(log, "done")
Fetches == Count(log, "fetch")
LastHandleDone == operation # None /\ operation[1].done = Some(TRUE)
\* the result uri of the last handle, "" or missing at any level counting as none
HasUri ==
  /\ operation # None
  /\ operation[1].response # None
  /\ operation[1].response[1].generatedVideos # <<>>
  /\ operation[1].response[1].generatedVideos[1].video # None
  /\ operation[1].response[1].generatedVideos[1].video[1].uri \notin {None, Some("")}

\* C8: a video handle is returned only after a handle with done = true was
\* observed; while the last handle observed is not done the call waits,
\* queries, or has failed with a thrown error.
C8_ReturnsOnlyWhenDone ==
  /\ (vpc = "returned" \/ videoHandle # None) => (LastHandleDone /\ DoneSeen = 1)
  /\ (operation # None /\ ~LastHandleDone) =>
       /\ vpc \in {"sleeping", "querying", "failed"}
       /\ videoHandle = None
  /\ vpc = "failed" => (videoHandle = None /\ log[Len(log)] = "throw")
  /\ vpc = "returned" => videoHandle # None

\* the call returned a handle after two handles that were not done, the
\* submission's among them
C8_Witness ==
  /\ vpc = "returned"
  /\ videoHandle # None
  /\ PendingSeen = 2
  /\ SubSeq(log, 1, 3) = <<"generateVideos", "pending", "setTimeout">>

\* C9: the status queries issued are as many as the handles observed that were
\* not done: one less while the wait for the next query lasts, and as many at
\* every later point, at the end of the call in particular.
C9_QueriesEqualPending ==
  /\ vpc = "sleeping" => Queries + 1 = PendingSeen
  /\ vpc \in {"querying", "fetching", "reading", "returned", "failed"} => Queries = PendingSeen
  /\ vpc \in {"idle", "submitting"} => (Queries = 0 /\ PendingSeen = 0)

\* a job that reported done = false twice and then done = true with a uri: the
\* call returned after 2 status queries
C9_Witness ==
  /\ vpc = "returned"
  /\ PendingSeen = 2
  /\ Queries = 2
  /\ HasUri

\* C10: a job that is done without a result uri makes the call fail, with no
\* fetch and no video handle; a fetch happens only after a done job with a uri.
C10_NoUriFails ==
  /\ (LastHandleDone /\ ~HasUri) =>
       /\ vpc = "failed"
       /\ log[Len(log)] = "throw"
       /\ Fetches = 0
       /\ videoHandle = None
  /\ (Fetches > 0 \/ vpc \in {"fetching", "reading", "returned"}) =>
       /\ LastHandleDone
       /\ HasUri
       /\ Fetches = 1
       /\ \A i \in 1..Len(log) : log[i] = "fetch" => (i > 1 /\ log[i - 1] = "done")

\* the call failed on a job that came back done, after one query, with an empty
\* result uri
C10_Witness ==
  /\ vpc = "failed"
  /\ LastHandleDone
  /\ Queries = 1
  /\ operation[1].response = Videos(Some(""))
  /\ Fetches = 0

\* the image given to the call is a data URI data:image/<mime>;base64,<payload>
IsDataUri ==
  /\ input # None
  /\ Len(input[1].imageBase64) = 4
  /\ input[1].imageBase64[1] = "data:image/"
  /\ input[1].imageBase64[3] = ";base64,"
TheMime == input[1].imageBase64[2]
\* raw bytes wrapped again as a data URI of that mime type
Wrap(mime, bytes) == <<"data:image/", mime, ";base64,">> \o bytes

\* C11 (as stated): whatever the mime type of the data URI, the imageBytes
\* submitted are its payload, and wrapping them again gives the data URI back.
C11_PrefixStrippedAnyMime ==
  IsDataUri =>
    /\ submitted[1].imageBytes = <<input[1].imageBase64[4]>>
    /\ Wrap(TheMime, submitted[1].imageBytes) = input[1].imageBase64

\* C11 (amended): that holds for the mime types png, jpeg and jpg; a data URI
\* of another mime type is submitted whole, prefix included.
C11_PrefixStrippedPngJpeg ==
  IsDataUri =>
    IF TheMime \in {"png", "jpeg", "jpg"}
    THEN /\ submitted[1].imageBytes = <<input[1].imageBase64[4]>>
         /\ Wrap(TheMime, submitted[1].imageBytes) = input[1].imageBase64
    ELSE submitted[1].imageBytes = input[1].imageBase64

\* a jpeg data URI was submitted as its payload
C11_Witness ==
  /\ IsDataUri
  /\ TheMime = "jpeg"
  /\ submitted # None
  /\ submitted[1].imageBytes = <<Payload>>
  /\ "generateVideos" = log[1]

NoThrow == Count(log, "throw") = 0
Ended == vpc \in {"returned", "failed"}

C13_EndsByUriAlone ==
  /\ vpc = "returned" => (LastHandleDone /\ HasUri)
  /\ (vpc = "failed" /\ LastHandleDone) => ~HasUri

\* C13 (amended): with the timer firing and every awaited call settling, once
\* the job is done the call ends, with a video handle only when the job had a
\* uri, with a thrown error when it had none or when the fetch or the reading
\* of its body was rejected.
C13_EndsReturnedOrThrown ==
  /\ [](vpc = "returned" => (LastHandleDone /\ HasUri /\ videoHandle # None))
  /\ [](vpc = "failed" => (videoHandle = None /\ log[Len(log)] = "throw"))
  /\ []((LastHandleDone /\ ~HasUri) => vpc = "failed")
  /\ []((vpc = "failed" /\ LastHandleDone /\ HasUri) => Fetches = 1)
  /\ (DoneSeen > 0) ~> Ended

\* the job was done with a uri after one status query, and the call failed on
\* the fetch
C13_Witness ==
  /\ vpc = "failed"
  /\ LastHandleDone
  /\ HasUri
  /\ Queries = 1
  /\ Fetches = 1

\* C15: every status query comes right after a wait of 5000 ms, every wait
\* right after a handle that was not done, and no wait after a done handle.
C15_WaitBeforeEveryQuery ==
  /\ \A i \in 1..Len(log) :
       /\ log[i] = "getVideosOperation" => (i > 1 /\ log[i - 1] = "setTimeout")
       /\ log[i] = "setTimeout" => (i > 1 /\ log[i - 1] = "pending")
       /\ log[i] = "done" => \A j \in i..Len(log) : log[j] # "setTimeout"
  /\ Count(log, "setTimeout") = PendingSeen
  /\ timer # None => (timer = Some(5000) /\ vpc = "sleeping")
  /\ vpc = "sleeping" => (timer # None /\ log[Len(log)] = "setTimeout")
  /\ DoneSeen > 0 => timer = None

\* two status queries, each after its own wait, then a done handle and the fetch
C15_Witness ==
  /\ log = <<"generateVideos", "pending", "setTimeout", "getVideosOperation",
             "pending", "setTimeout", "getVideosOperation", "done", "fetch">>
  /\ timer = None

\* C16: one call issues one generateVideos request, first of all; an error
\* thrown by the submission or by a status query is the last thing that
\* happens: no query, fetch or second submission follows.
C16_OneSubmissionNoRetry ==
  /\ vpc # "idle" =>
       /\ log[1] = "generateVideos"
       /\ Count(log, "generateVideos") = 1
       /\ submitted # None
  /\ vpc = "idle" => (log = <<>> /\ submitted = None)
  /\ \A i \in 1..Len(log) : log[i] = "throw" => i = Len(log)
  /\ (log # <<>> /\ log[Len(log)] = "throw") => vpc = "failed"
  /\ vpc = "failed" => ~ENABLED NextVideo
  /\ (vpc = "failed" /\ ~LastHandleDone) => Fetches = 0

\* the second status query threw and the call failed there
C16_Witness ==
  /\ vpc = "failed"
  /\ log = <<"generateVideos", "pending", "setTimeout", "getVideosOperation",
             "pending", "setTimeout", "getVideosOperation", "throw">>

\* a fact line with its indentation removed first and its bullet marker next
stripIndentedBullet(f) == stripBullet(Trim(f))

\* C14: every entry of facts is its source line without the bullet marker,
\* also when the line is indented before the bullet; lines left blank are
\* dropped.
C14_IndentedBulletStripped ==
  Returned =>
    TheFacts = FirstNonBlank(MapSeq(stripIndentedBullet, Split(factsRaw(TheText))), MaxFacts)

\* C17: isAnimating is true exactly while a call started by handleGenerateVideo
\* is pending and at most one is; a click while isAnimating changes nothing;
\* when the call settles isAnimating is false, with videoUrl the result on
\* success and videoUrl as it was on failure.
C17_AnimatingWhilePending ==
  /\ [](calls \in {0, 1})
  /\ [](isAnimating <=> calls = 1)
  /\ [][(isAnimating /\ handleGenerateVideo) => UNCHANGED vars]_vars
  /\ [][videoCallResolves =>
          (~isAnimating' /\ calls' = 0 /\ videoUrl' # None /\ videoUrl'[1] \in ObjectUrls)]_vars
  /\ [][videoCallRejects => (~isAnimating' /\ calls' = 0 /\ videoUrl' = videoUrl)]_vars

\* a call is pending in the open modal, after an earlier call gave a video
C17_Witness ==
  /\ showVideoModal
  /\ isAnimating
  /\ calls = 1
  /\ videoUrl = Some("blob:2")

\* C18: copyStatus is 'copying' while a clipboard write is pending and 'copied'
\* while the timer of the latest copy runs: no timer of an earlier copy has set
\* it to 'idle' in between.
C18_CopyStatusFollowsLatestCopy ==
  /\ writes # {} => copyStatus = "copying"
  /\ (writes = {} /\ resets # <<>> /\ resets[Len(resets)].copy = copies) =>
       copyStatus = "copied"
  /\ copyStatus = "idle" =>
       (copies \notin writes /\ \A i \in 1..Len(resets) : resets[i].copy # copies)

\* C19: zoomLevel is a multiple of 0.5 from 0.5 to 4; zoom in at 4 and zoom out
\* at 0.5 leave it as it is; handleCloseFullscreen leaves zoomLevel 1 and
\* isFullscreen false.
C19_ZoomInRange ==
  /\ [](zoomLevel % 5 = 0 /\ zoomLevel >= 5 /\ zoomLevel <= 40)
  /\ [][(handleZoomIn /\ zoomLevel = 40) => zoomLevel' = 40]_vars
  /\ [][(handleZoomOut /\ zoomLevel = 5) => zoomLevel' = 5]_vars
  /\ [][(handleZoomIn /\ zoomLevel < 40) => zoomLevel' = zoomLevel + 5]_vars
  /\ [][(handleZoomOut /\ zoomLevel > 5) => zoomLevel' = zoomLevel - 5]_vars
  /\ [][handleCloseFullscreen => (zoomLevel' = 10 /\ ~isFullscreen')]_vars

\* the fullscreen view zoomed in to 4, where zoom in saturates
C19_Witness ==
  /\ isFullscreen
  /\ zoomLevel = 40

====
